---- MODULE Spec2Model ----
(***************************************************************************)
(* Model of network.py: the packet-statistics pipeline                     *)
(*   extract_packet_data -> analyze_packet_data                            *)
(*   extract_packet_data_security -> detect_port_scanning                  *)
(*                                                                         *)
(* Conventions.                                                            *)
(*  - An IP address is an integer: its rank in the string order pandas     *)
(*    uses when groupby sorts its keys.                                    *)
(*  - A DataFrame built from a list of dicts is the sequence of its rows;  *)
(*    pd.DataFrame([]) has no rows AND no columns (see Columns).           *)
(*  - A float percentage count / total * 100 is the exact rational         *)
(*    [num |-> count * 100, den |-> total].                                *)
(*  - A formatted string is the sequence of its pieces:                    *)
(*    f"Unknown({n})" is <<"Unknown(", n, ")">>, 'TCP' is <<"TCP">>.       *)
(*  - Rendering (print_results, the plots) reads the results and changes   *)
(*    nothing; it is not modelled.                                         *)
(***************************************************************************)
EXTENDS Integers, Sequences, FiniteSets, TLC

VARIABLES packets, pc, df, result, sec_df, calls

vars == <<packets, pc, df, result, sec_df, calls>>

(* ------------------------------ bounds -------------------------------- *)

\* longest packet sequence read from the capture
MaxLen == 3
\* TCP destination ports in the inputs are 1..MaxPort
MaxPort == 2
\* thresholds tried are 1..MaxThreshold
MaxThreshold == 3
\* detect_port_scanning is invoked at most MaxCalls times on one frame
MaxCalls == 2

\* the addresses of the inputs
IPs == {1, 2}
\* (protocol number, frame size) of the IP packets given to the aggregator
AggTransports == {<<6, 60>>, <<6, 1500>>, <<17, 60>>, <<99, 60>>}
Thresholds == 1..MaxThreshold

SeqsUpTo(S, n) == UNION {[1..k -> S] : k \in 0..n}

\* a frame that is not IP (ARP, IPv6, ...): `IP in packet` is False
NonIPPacket ==
    [ip |-> FALSE, src |-> 0, dst |-> 0, proto |-> 0, len |-> 60,
     tcp |-> FALSE, dport |-> 0]

\* inputs of the aggregator: address pair, protocol and size vary
AggPackets ==
    {NonIPPacket} \cup
    {[ip |-> TRUE, src |-> s, dst |-> d, proto |-> t[1], len |-> t[2],
      tcp |-> (t[1] = 6), dport |-> IF t[1] = 6 THEN 1 ELSE 0] :
        s \in IPs, d \in IPs, t \in AggTransports}

\* inputs of the port-scan heuristic: from every source, TCP to every port
\* of host 1, TCP to port 1 of host 2, and UDP (no TCP layer) to host 1
ScanPackets ==
    {NonIPPacket} \cup
    {[ip |-> TRUE, src |-> s, dst |-> 1, proto |-> 6, len |-> 60,
      tcp |-> TRUE, dport |-> q] : s \in IPs, q \in 1..MaxPort} \cup
    {[ip |-> TRUE, src |-> s, dst |-> 2, proto |-> 6, len |-> 60,
      tcp |-> TRUE, dport |-> 1] : s \in IPs} \cup
    {[ip |-> TRUE, src |-> s, dst |-> 1, proto |-> 17, len |-> 1500,
      tcp |-> FALSE, dport |-> 0] : s \in IPs}

(* ------------------------- sequence helpers --------------------------- *)

\* the elements of s at the indices in I, in index order
SubSeqAt(s, I) ==
    LET F[k \in 0..Len(s)] ==
            IF k = 0 THEN <<>>
            ELSE IF k \in I THEN Append(F[k - 1], s[k]) ELSE F[k - 1]
    IN  F[Len(s)]

Range(s) == {s[i] : i \in 1..Len(s)}

RECURSIVE SumSeq(_)
SumSeq(s) == IF s = <<>> THEN 0 ELSE s[1] + SumSeq(Tail(s))

\* tuples of integers of equal length, compared as Python compares tuples
RECURSIVE LexLess(_, _)
LexLess(a, b) ==
    /\ a # <<>>
    /\ \/ a[1] < b[1]
       \/ a[1] = b[1] /\ LexLess(Tail(a), Tail(b))

RECURSIVE SortKeys(_)
SortKeys(S) ==
    IF S = {} THEN <<>>
    ELSE LET m == CHOOSE x \in S : \A y \in S : x = y \/ LexLess(x, y)
         IN  <<m>> \o SortKeys(S \ {m})

(* --------------------------- pandas helpers --------------------------- *)

\* the columns of pd.DataFrame(list_of_dicts): the dicts' keys, and none at
\* all when the list is empty
Columns(frame, keys) == IF frame = <<>> THEN {} ELSE keys

\* count / total * 100
Pct(count, total) == [num |-> count * 100, den |-> total]

\* groupby(keys).size(): one row per distinct key, rows sorted by key
\* (groupby's default sort=True); keyOf[i] is the key tuple of row i
GroupBySize(keyOf) ==
    LET ks == SortKeys(Range(keyOf))
    IN  [i \in 1..Len(ks) |->
            [key |-> ks[i],
             count |-> Cardinality({j \in 1..Len(keyOf) : keyOf[j] = ks[i]})]]

\* the counting half of Series.value_counts(): one row per distinct value,
\* in the order of first appearance (the hash table's order)
ValueCountsUnsorted(col) ==
    LET first == {i \in 1..Len(col) : \A j \in 1..(i - 1) : col[j] # col[i]}
        ks == SubSeqAt(col, first)
    IN  [i \in 1..Len(ks) |->
            [key |-> ks[i],
             count |-> Cardinality({j \in 1..Len(col) : col[j] = ks[i]})]]

\* sort_values() as it sorts without ascending=False
SortValuesAscending(t) ==
    IF t = <<>> THEN {<<>>}
    ELSE {s \in {[i \in 1..Len(t) |-> t[p[i]]] : p \in Permutations(1..Len(t))} :
             \A i \in 1..(Len(s) - 1) : s[i].count <= s[i + 1].count}

\* Series.sort_values(ascending=False) with the default kind='quicksort':
\* the rows by count descending. The sort is not stable, so the order of
\* rows of equal count is whatever the numpy build produces: every
\* count-descending arrangement is a possible outcome.
SortValuesDescending(t) ==
    IF t = <<>> THEN {<<>>}
    ELSE {s \in {[i \in 1..Len(t) |-> t[p[i]]] : p \in Permutations(1..Len(t))} :
             \A i \in 1..(Len(s) - 1) : s[i].count >= s[i + 1].count}

(* ------------------------------ the code ------------------------------ *)

\* extract_packet_data: one row per packet that has an IP layer
extract_packet_data(pk) ==
    LET sel == SubSeqAt(pk, {i \in 1..Len(pk) : pk[i].ip})
    IN  [i \in 1..Len(sel) |->
            [src_ip |-> sel[i].src, dst_ip |-> sel[i].dst,
             protocol |-> sel[i].proto, size |-> sel[i].len]]

protocol_name(number) ==
    CASE number = 1 -> <<"ICMP">>
      [] number = 6 -> <<"TCP">>
      [] number = 17 -> <<"UDP">>
      [] OTHER -> <<"Unknown(", number, ")">>

\* the counts over the number of distinct values instead of their sum
NormalizeByDistinct(vc) ==
    [i \in 1..Len(vc) |-> [index |-> vc[i].key, value |-> Pct(vc[i].count, Len(vc))]]

\* Series.value_counts(normalize=True) * 100 of a sorted count table
Normalize(vc) ==
    LET total == SumSeq([i \in 1..Len(vc) |-> vc[i].count])
    IN  [i \in 1..Len(vc) |-> [index |-> vc[i].key, value |-> Pct(vc[i].count, total)]]

\* series.index = series.index.map(protocol_name)
MapIndex(series) ==
    [i \in 1..Len(series) |->
        [index |-> protocol_name(series[i].index), value |-> series[i].value]]

\* pd.concat([a, b], axis=1).reset_index() of two Series carrying the same
\* labels: the rows of a, each with the value b has under the same label
\* (positionally when the two indexes are identical)
ConcatColumns(a, b) ==
    IF [i \in 1..Len(a) |-> a[i].index] = [i \in 1..Len(b) |-> b[i].index]
    THEN [i \in 1..Len(a) |->
            [Protocol |-> a[i].index, Count |-> a[i].value, Percentage |-> b[i].value]]
    ELSE [i \in 1..Len(a) |->
            [Protocol |-> a[i].index, Count |-> a[i].value,
             Percentage |-> b[CHOOSE j \in 1..Len(b) : b[j].index = a[i].index].value]]

\* lines 48-50: the pair counts, sorted, with their share of all packets
IpCommunicationTable(ip_communication) ==
    LET total == SumSeq([i \in 1..Len(ip_communication) |-> ip_communication[i].count])
    IN  [i \in 1..Len(ip_communication) |->
            [src_ip |-> ip_communication[i].key[1],
             dst_ip |-> ip_communication[i].key[2],
             count |-> ip_communication[i].count,
             percentage |-> Pct(ip_communication[i].count, total)]]

\* the share of all packets instead of the share within the pair
ShareOfAll(rows, i) ==
    Pct(rows[i].count, SumSeq([j \in 1..Len(rows) |-> rows[j].count]))

\* groupby(["Source IP", "Destination IP"])["Count"].transform(x / x.sum() * 100)
GroupShare(rows, i) ==
    LET grp == {j \in 1..Len(rows) : rows[j].key[1] = rows[i].key[1]
                                     /\ rows[j].key[2] = rows[i].key[2]}
        x == [j \in 1..Len(rows) |-> IF j \in grp THEN rows[j].count ELSE 0]
    IN  Pct(rows[i].count, SumSeq(x))

\* lines 58-66: the count of every (source, destination, protocol) and its
\* share within its (source, destination) pair
IpCommunicationProtocols(d) ==
    LET rows == GroupBySize([i \in 1..Len(d) |->
                                <<d[i].src_ip, d[i].dst_ip, d[i].protocol>>])
    IN  [i \in 1..Len(rows) |->
            [SourceIP |-> rows[i].key[1], DestinationIP |-> rows[i].key[2],
             Protocol |-> protocol_name(rows[i].key[3]),
             Count |-> rows[i].count,
             Percentage |-> GroupShare(rows, i)]]

NoResult ==
    [status |-> "none", total_bandwidth |-> 0, protocol_counts_df |-> <<>>,
     ip_communication_table |-> <<>>, protocol_frequency |-> <<>>,
     ip_communication_protocols |-> <<>>]

\* df["size"] on a frame without that column
KeyErrorResult == [NoResult EXCEPT !.status = "KeyError"]

\* analyze_packet_data: the values it can return (one per outcome of the
\* two unstable sorts), or the KeyError it raises
analyze_packet_data(d) ==
    IF "size" \notin Columns(d, {"src_ip", "dst_ip", "protocol", "size"})
    THEN {KeyErrorResult}
    ELSE
      LET total_bandwidth == SumSeq([i \in 1..Len(d) |-> d[i].size])
          protoCol == [i \in 1..Len(d) |-> d[i].protocol]
          pairCol == [i \in 1..Len(d) |-> <<d[i].src_ip, d[i].dst_ip>>]
      IN  {[status |-> "ok",
            total_bandwidth |-> total_bandwidth,
            protocol_counts_df |->
                ConcatColumns(
                    MapIndex([i \in 1..Len(vc) |->
                                [index |-> vc[i].key, value |-> vc[i].count]]),
                    MapIndex(Normalize(vc))),
            ip_communication_table |-> IpCommunicationTable(ipc),
            protocol_frequency |->
                MapIndex([i \in 1..Len(vc) |->
                            [index |-> vc[i].key, value |-> vc[i].count]]),
            ip_communication_protocols |-> IpCommunicationProtocols(d)] :
              vc \in SortValuesDescending(ValueCountsUnsorted(protoCol)),
              ipc \in SortValuesDescending(GroupBySize(pairCol))}

\* extract_packet_data_security: as extract_packet_data, with the TCP
\* destination port, or 0 when the packet has no TCP layer
extract_packet_data_security(pk) ==
    LET sel == SubSeqAt(pk, {i \in 1..Len(pk) : pk[i].ip})
    IN  [i \in 1..Len(sel) |->
            [src_ip |-> sel[i].src, dst_ip |-> sel[i].dst,
             protocol |-> sel[i].proto, size |-> sel[i].len,
             dst_port |-> IF sel[i].tcp THEN sel[i].dport ELSE 0]]

\* line 91 and line 94: per source, the number of distinct dst_port values
UniquePortsPerIp(d) ==
    LET port_scan_df == GroupBySize([i \in 1..Len(d) |-> <<d[i].src_ip, d[i].dst_port>>])
        rows == GroupBySize([i \in 1..Len(port_scan_df) |-> <<port_scan_df[i].key[1]>>])
    IN  [i \in 1..Len(rows) |-> [src_ip |-> rows[i].key[1], unique_ports |-> rows[i].count]]

\* the comparison with == in place of >=
EqualsThreshold(unique_ports, port_scan_threshold) ==
    unique_ports = port_scan_threshold

\* line 97
MeetsThreshold(unique_ports, port_scan_threshold) ==
    unique_ports >= port_scan_threshold

\* line 97-98: the sources whose count meets the threshold
PotentialPortScanners(unique_ports_per_ip, port_scan_threshold) ==
    LET kept == SubSeqAt(unique_ports_per_ip,
                    {i \in 1..Len(unique_ports_per_ip) :
                        MeetsThreshold(unique_ports_per_ip[i].unique_ports,
                                       port_scan_threshold)})
        col == [i \in 1..Len(kept) |-> kept[i].src_ip]
    IN  SubSeqAt(col, {i \in 1..Len(col) : \A j \in 1..(i - 1) : col[j] # col[i]})

\* ', '.join(ip_addresses)
RECURSIVE Join(_)
Join(ip_addresses) ==
    IF Len(ip_addresses) <= 1 THEN ip_addresses
    ELSE <<ip_addresses[1], ", ">> \o Join(Tail(ip_addresses))

\* line 100-101: what the call writes to the logger
WarningsLogged(ip_addresses) ==
    IF Len(ip_addresses) > 0
    THEN <<[level |-> "WARNING",
            msg |-> <<"Potential port scanning detected from IP addresses: ">>
                        \o Join(ip_addresses)]>>
    ELSE <<>>

\* detect_port_scanning: what one call does. unique_ports_per_ip and
\* ip_addresses are the function's locals, kept for the record; logged is
\* what it writes to the logger; ret is its return value (it has no return
\* statement); raised is the KeyError of groupby on a frame without columns.
detect_port_scanning(d, port_scan_threshold) ==
    IF {"src_ip", "dst_port"} \subseteq
           Columns(d, {"src_ip", "dst_ip", "protocol", "size", "dst_port"})
    THEN CHOOSE call \in
            {[threshold |-> port_scan_threshold, raised |-> FALSE,
              unique_ports_per_ip |-> unique_ports_per_ip,
              ip_addresses |-> ip_addresses,
              logged |-> WarningsLogged(ip_addresses),
              ret |-> "None"] :
                <<unique_ports_per_ip, ip_addresses>> \in
                    {<<u, PotentialPortScanners(u, port_scan_threshold)>> :
                        u \in {UniquePortsPerIp(d)}}} : TRUE
    ELSE [threshold |-> port_scan_threshold, raised |-> TRUE,
          unique_ports_per_ip |-> <<>>, ip_addresses |-> <<>>,
          logged |-> <<>>, ret |-> "KeyError"]

(* ----------------------------- the machine ---------------------------- *)

\* main, line 145
ExtractPacketData ==
    /\ pc = "extract"
    /\ df' = extract_packet_data(packets)
    /\ pc' = "analyze"
    /\ UNCHANGED <<packets, result, sec_df, calls>>

\* main, line 146; an exception ends main
AnalyzePacketData ==
    /\ pc = "analyze"
    /\ \E r \in analyze_packet_data(df) :
          /\ result' = r
          /\ pc' = IF r.status = "ok" THEN "security" ELSE "crashed"
    /\ UNCHANGED <<packets, df, sec_df, calls>>

\* main, line 148
ExtractPacketDataSecurity ==
    /\ pc = "security"
    /\ sec_df' = extract_packet_data_security(packets)
    /\ pc' = "detect"
    /\ UNCHANGED <<packets, df, result, calls>>

\* main, line 149: one invocation of detect_port_scanning on the frame; main
\* ends after it. The function keeps no state, and a caller may invoke it
\* again on the same frame with another threshold.
DetectPortScanning ==
    /\ pc \in {"detect", "done"}
    /\ Cardinality(calls) < MaxCalls
    /\ \E t \in Thresholds :
          \E c \in {detect_port_scanning(sec_df, t)} :
              /\ calls' = calls \cup {c}
              /\ pc' = IF c.raised THEN "crashed" ELSE "done"
    /\ UNCHANGED <<packets, df, result, sec_df>>

Start(universe, at) ==
    /\ packets \in SeqsUpTo(universe, MaxLen)
    /\ pc = at
    /\ df = <<>>
    /\ result = NoResult
    /\ sec_df = <<>>
    /\ calls = {}

\* main on a capture of the port-scan inputs
Init == Start(ScanPackets, "extract")

Next ==
    \/ ExtractPacketData
    \/ AnalyzePacketData
    \/ ExtractPacketDataSecurity
    \/ DetectPortScanning

Spec == Init /\ [][Next]_vars

\* the aggregator alone, on its inputs
InitAgg == Start(AggPackets, "extract")

NextAgg == ExtractPacketData \/ AnalyzePacketData

SpecAgg == InitAgg /\ [][NextAgg]_vars

\* the heuristic alone, on its inputs
InitScan == Start(ScanPackets, "security")

NextScan == ExtractPacketDataSecurity \/ DetectPortScanning

SpecScan == InitScan /\ [][NextScan]_vars

\* analyze_packet_data called directly on a frame of records, some of them
\* invalid (a negative size, a negative protocol number)
DirectRows ==
    {[src_ip |-> 1, dst_ip |-> d, protocol |-> p, size |-> n] :
        d \in IPs, p \in {-1, 6, 17}, n \in {-1, 60}}

InitDirect ==
    /\ packets = <<>>
    /\ pc = "analyze"
    /\ df \in SeqsUpTo(DirectRows, MaxLen) \ {<<>>}
    /\ result = NoResult
    /\ sec_df = <<>>
    /\ calls = {}

NextDirect == AnalyzePacketData

SpecDirect == InitDirect /\ [][NextDirect]_vars

(* ------------------- what the input sequence contains ----------------- *)

RECURSIVE SumIdx(_, _)
SumIdx(f, I) ==
    IF I = {} THEN 0
    ELSE LET i == CHOOSE j \in I : TRUE IN f[i] + SumIdx(f, I \ {i})

IPIdx == {i \in 1..Len(packets) : packets[i].ip}
PairIdx(s, d) == {i \in IPIdx : packets[i].src = s /\ packets[i].dst = d}
ProtoIdx(n) == {i \in IPIdx : packets[i].proto = n}
PairsSeen == {<<packets[i].src, packets[i].dst>> : i \in IPIdx}
ProtosSeen == {packets[i].proto : i \in IPIdx}
SourcesSeen == {packets[i].src : i \in IPIdx}
FirstSeen(s, d) == CHOOSE i \in PairIdx(s, d) : \A j \in PairIdx(s, d) : i <= j
\* the destination ports a source contacted: those of its TCP packets
TcpPorts(s) == {packets[i].dport : i \in {j \in IPIdx : packets[j].src = s /\ packets[j].tcp}}

Analyzed == result.status # "none"
Returned == result.status = "ok"

\* the sources a call flagged, as its warning names them
NamesIn(msg) == {msg[k] : k \in {j \in 2..Len(msg) : j % 2 = 0}}
Flagged(c) == UNION {NamesIn(c.logged[k].msg) : k \in 1..Len(c.logged)}
\* the sources whose count, as the call computed it, meets its threshold
MeetingThreshold(c) ==
    {c.unique_ports_per_ip[k].src_ip :
        k \in {j \in 1..Len(c.unique_ports_per_ip) :
                 c.unique_ports_per_ip[j].unique_ports >= c.threshold}}

(* ------------------------------- claims ------------------------------- *)

\* C1: the distinct-port count a call compares against the threshold is, for
\* every source, the number of distinct non-sentinel destination ports the
\* source contacted (port 0, recorded for packets without TCP, not counted).
C1_CountIsNonSentinelPorts ==
    \A c \in calls :
        ~c.raised =>
            \A k \in 1..Len(c.unique_ports_per_ip) :
                c.unique_ports_per_ip[k].unique_ports =
                    Cardinality(TcpPorts(c.unique_ports_per_ip[k].src_ip) \ {0})

\* C2: with no IP packet in the input, main finishes without an exception,
\* with total bandwidth 0, the three tables empty and no source flagged.
C2_EmptyInputEndsClean ==
    (IPIdx = {} /\ pc \in {"done", "crashed"}) =>
        /\ pc = "done"
        /\ result.status = "ok"
        /\ result.total_bandwidth = 0
        /\ result.protocol_counts_df = <<>>
        /\ result.ip_communication_table = <<>>
        /\ result.ip_communication_protocols = <<>>
        /\ \A c \in calls : ~c.raised /\ Flagged(c) = {}

\* C3: the threshold is inclusive: a source that contacted exactly T distinct
\* destination ports is flagged at threshold T, one that contacted exactly
\* T - 1 is not, whatever packets without a port it also sent.
C3_InclusiveThreshold ==
    \A c \in calls :
        ~c.raised =>
            \A s \in SourcesSeen :
                /\ Cardinality(TcpPorts(s)) = c.threshold => s \in Flagged(c)
                /\ Cardinality(TcpPorts(s)) = c.threshold - 1 => s \notin Flagged(c)

\* C4 as stated: the pair table is in count-descending order and pairs of
\* equal count are in the order their first packets appear in the input.
C4_TiesInFirstObservedOrder ==
    Returned =>
        \A i, j \in 1..Len(result.ip_communication_table) :
            i < j =>
                LET a == result.ip_communication_table[i]
                    b == result.ip_communication_table[j]
                IN  \/ a.count > b.count
                    \/ /\ a.count = b.count
                       /\ FirstSeen(a.src_ip, a.dst_ip) < FirstSeen(b.src_ip, b.dst_ip)

\* C4 amended: the pair table has one row per ordered pair seen, with the
\* pair's packet count, and the rows are in count-descending order (nothing
\* is said about the order of rows of equal count).
C4_PairTableCountDescending ==
    Returned =>
        LET t == result.ip_communication_table IN
        /\ Len(t) = Cardinality(PairsSeen)
        /\ \A pr \in PairsSeen :
              \E i \in 1..Len(t) :
                  /\ t[i].src_ip = pr[1] /\ t[i].dst_ip = pr[2]
                  /\ t[i].count = Cardinality(PairIdx(pr[1], pr[2]))
        /\ \A i \in 1..(Len(t) - 1) : t[i].count >= t[i + 1].count

\* a table returned in which the sort moved a pair of larger count ahead of
\* a pair that precedes it in address order and in the input
C4_Witness ==
    /\ Returned
    /\ LET t == result.ip_communication_table IN
       \E i, j \in 1..Len(t) :
           /\ i < j
           /\ t[i].count > t[j].count
           /\ LexLess(<<t[j].src_ip, t[j].dst_ip>>, <<t[i].src_ip, t[i].dst_ip>>)
           /\ FirstSeen(t[j].src_ip, t[j].dst_ip) < FirstSeen(t[i].src_ip, t[i].dst_ip)

\* C5: for every input sequence, analyze_packet_data returns as total
\* bandwidth the sum of the sizes of the packets that have an IP layer.
C5_TotalBandwidthIsSumOfIPSizes ==
    Analyzed =>
        /\ Returned
        /\ result.total_bandwidth =
               SumIdx([i \in 1..Len(packets) |-> packets[i].len], IPIdx)

\* C6: when there is at least one IP record, the protocol distribution has
\* exactly one row per protocol number seen; the row carries the protocol's
\* name, the number of packets of that protocol, and that number over the
\* number of all packets times 100; the counts sum to the number of packets
\* and the percentages to 100.
C6_ProtocolDistribution ==
    (Analyzed /\ IPIdx # {}) =>
        LET t == result.protocol_counts_df
            total == Cardinality(IPIdx)
        IN  /\ Returned
            /\ Len(t) = Cardinality(ProtosSeen)
            /\ \A n \in ProtosSeen :
                  /\ Cardinality({i \in 1..Len(t) : t[i].Protocol = protocol_name(n)}) = 1
                  /\ \A i \in 1..Len(t) :
                        t[i].Protocol = protocol_name(n) =>
                            /\ t[i].Count = Cardinality(ProtoIdx(n))
                            /\ t[i].Percentage = Pct(Cardinality(ProtoIdx(n)), total)
            /\ SumIdx([i \in 1..Len(t) |-> t[i].Count], 1..Len(t)) = total
            /\ \A i \in 1..Len(t) : t[i].Percentage.den = total
            /\ SumIdx([i \in 1..Len(t) |-> t[i].Percentage.num], 1..Len(t)) = 100 * total

\* a distribution returned with three protocols, one of them without a name
C6_Witness ==
    /\ Returned
    /\ Len(result.protocol_counts_df) = 3
    /\ \E i \in 1..3 : result.protocol_counts_df[i].Protocol = <<"Unknown(", 99, ")">>

\* C7: for every pair seen, the counts of the pair's rows in the per-protocol
\* table sum to the pair's count in the pair table, every such row's
\* percentage is its count over that sum times 100, and so the percentages
\* of the pair's rows sum to 100.
C7_PerPairShares ==
    Returned =>
        \A pr \in PairsSeen :
            LET t == result.ip_communication_protocols
                rows == {i \in 1..Len(t) :
                            t[i].SourceIP = pr[1] /\ t[i].DestinationIP = pr[2]}
                sum == SumIdx([i \in 1..Len(t) |-> t[i].Count], rows)
            IN  /\ \E k \in 1..Len(result.ip_communication_table) :
                      /\ result.ip_communication_table[k].src_ip = pr[1]
                      /\ result.ip_communication_table[k].dst_ip = pr[2]
                      /\ result.ip_communication_table[k].count = sum
                /\ \A i \in rows : t[i].Percentage = Pct(t[i].Count, sum)
                /\ SumIdx([i \in 1..Len(t) |-> t[i].Percentage.num], rows) = 100 * sum

\* a result with a pair of two protocols and another pair of another total
C7_Witness ==
    /\ Returned
    /\ LET t == result.ip_communication_protocols IN
       \E i, j, k \in 1..Len(t) :
           /\ i # j
           /\ t[i].SourceIP = t[j].SourceIP /\ t[i].DestinationIP = t[j].DestinationIP
           /\ <<t[k].SourceIP, t[k].DestinationIP>> # <<t[i].SourceIP, t[i].DestinationIP>>

\* C8: given a record with a negative size or a negative protocol number,
\* analyze_packet_data ends in an error instead of returning totals.
C8_InvalidRecordFailsFast ==
    (Analyzed /\ \E i \in 1..Len(df) : df[i].size < 0 \/ df[i].protocol < 0) =>
        result.status # "ok"

\* C9: a call logs a warning exactly when some source meets the threshold,
\* the warning names exactly those sources, and what a call returns when
\* some source is flagged differs from what it returns when none is.
C9_WarningAndReturnTellFlagged ==
    \A c \in calls :
        ~c.raised =>
            /\ (c.logged # <<>>) <=> (MeetingThreshold(c) # {})
            /\ \A k \in 1..Len(c.logged) :
                  /\ c.logged[k].level = "WARNING"
                  /\ NamesIn(c.logged[k].msg) = MeetingThreshold(c)
            /\ \A c2 \in calls :
                  (~c2.raised /\ MeetingThreshold(c) # {} /\ MeetingThreshold(c2) = {})
                      => c.ret # c2.ret

\* C10: on the same frame, every source flagged at a threshold is flagged at
\* every lower threshold.
C10_FlaggedGrowsAsThresholdFalls ==
    \A c1, c2 \in calls :
        c2.threshold <= c1.threshold => Flagged(c1) \subseteq Flagged(c2)

\* two calls on one frame: a source flagged at both thresholds, and another
\* flagged at the lower one only
C10_Witness ==
    \E c1, c2 \in calls :
        /\ c2.threshold < c1.threshold
        /\ Flagged(c1) # {}
        /\ Flagged(c2) # Flagged(c1)

====
